---- MODULE Spec2Model ----
(***************************************************************************)
(* Customer lifetime analysis: the RFM engine (RFMCalculator) and the CLV  *)
(* estimator (CLVCalculator).                                              *)
(*                                                                         *)
(* A DataFrame is a function from column names to columns; a column is a   *)
(* sequence of cells, one per row.  Row i of the model (1-based) carries   *)
(* the pandas index label i - 1 of a RangeIndex.  Timestamps are integer   *)
(* ticks, TicksPerDay ticks to the day.  A cell that may be NaN is <<v>>   *)
(* or NaN; monetary_avg, a float mean, is the exact fraction               *)
(* <<numerator, denominator>> in lowest terms.                             *)
(*                                                                         *)
(* op is the last operation called and err the error it raised (NoError    *)
(* when it returned); last_fit records how the last fit_models call of the *)
(* calculator ended.  run is the progress of one call of main: the stages  *)
(* it attempted and completed, whether it is running, done or ended by a   *)
(* re-raised exception, the errors it logged, the files it created and,    *)
(* among them, the files it wrote to the end.                              *)
(***************************************************************************)
EXTENDS Integers, Sequences, FiniteSets, TLC

VARIABLES transactions, analysis_date, asof, rfm, err, op, bgf_model, ggf_model,
          last_fit, run

vars == <<transactions, analysis_date, asof, rfm, err, op, bgf_model, ggf_model,
          last_fit, run>>

(***************************************************************************)
(* Bounds of the model.                                                    *)
(***************************************************************************)
TicksPerDay == 2
MaxTick == 2
MaxTxns == 3
CustomerIds == {0, 1, 2}
Amounts == {1, 2}
MaxCustomers == 5
RecencyValues == 0..4
FrequencyValues == 1..5
MonetarySums == 1..2
MaxClvRows == 2
ClvValues == 0..2
PredictedValues == {0, 1}

(***************************************************************************)
(* Values.                                                                 *)
(***************************************************************************)
None == <<>>
NaN == <<>>
Some(v) == <<v>>
NoTable == <<>>
NoError == "none"
NoRun == [attempted |-> <<>>, completed |-> <<>>, status |-> "running",
          logged |-> <<>>, files |-> {}, written |-> {}]

Columns(df) == DOMAIN df

RECURSIVE GCD(_, _)
GCD(a, b) == IF b = 0 THEN a ELSE GCD(b, a % b)

Fraction(n, d) == <<n \div GCD(n, d), d \div GCD(n, d)>>

RECURSIVE SeqSum(_)
SeqSum(s) == IF s = <<>> THEN 0 ELSE Head(s) + SeqSum(Tail(s))

SetMax(S) == CHOOSE x \in S : \A y \in S : y <= x
SetMin(S) == CHOOSE x \in S : \A y \in S : x <= y

RECURSIVE SortedSeq(_)
SortedSeq(S) == IF S = {} THEN <<>> ELSE <<SetMin(S)>> \o SortedSeq(S \ {SetMin(S)})

(***************************************************************************)
(* RFMCalculator.calculate_rfm                                             *)
(***************************************************************************)
\* Timedelta.days: whole days, rounded towards minus infinity
Days(delta) == delta \div TicksPerDay

\* variant: the default date anchored to the earliest transaction
DefaultAnalysisDateEarliest(tx) ==
    SetMin({tx[i].transaction_date : i \in DOMAIN tx}) + TicksPerDay

\* transactions['transaction_date'].max() + pd.Timedelta(days=1)
DefaultAnalysisDate(tx) == SetMax({tx[i].transaction_date : i \in DOMAIN tx}) + TicksPerDay

ResolveAnalysisDate(tx, ad) == IF ad = None THEN DefaultAnalysisDate(tx) ELSE ad[1]

\* the rows of one group of transactions.groupby('customer_id')
Group(tx, c) == SelectSeq(tx, LAMBDA t : t.customer_id = c)

\* the group keys, sorted ascending as groupby sorts them
GroupKeys(tx) == SortedSeq({tx[i].customer_id : i \in DOMAIN tx})

GroupDates(g) == {g[i].transaction_date : i \in DOMAIN g}
GroupAmounts(g) == [i \in DOMAIN g |-> g[i].amount]

\* variant: recency measured from the first purchase of the group
RecencyFromFirst(g, date) == Days(date - SetMin(GroupDates(g)))

\* lambda x: (analysis_date - x.max()).days
Recency(g, date) == Days(date - SetMax(GroupDates(g)))

\* 'customer_id': 'count'
Frequency(g) == Len(g)

\* 'amount': ['sum', 'mean']
MonetarySum(g) == SeqSum(GroupAmounts(g))
MonetaryAvg(g) == Fraction(SeqSum(GroupAmounts(g)), Len(g))

\* first_purchase = transactions.groupby('customer_id')['transaction_date'].min()
\* (analysis_date - first_purchase).dt.days, a Series indexed by customer_id
FirstPurchaseDays(tx, date) ==
    [c \in {tx[i].customer_id : i \in DOMAIN tx} |->
        Days(date - SetMin(GroupDates(Group(tx, c))))]

\* rfm['T'] = <Series indexed by customer_id>: the assignment aligns the Series
\* on the index of rfm, which reset_index made 0..n-1; a label of rfm that is no
\* label of the Series gets NaN
AlignToIndex(series, n) ==
    [i \in 1..n |-> IF (i - 1) \in DOMAIN series THEN Some(series[i - 1]) ELSE NaN]

calculate_rfm(tx, ad) ==
    LET date == ResolveAnalysisDate(tx, ad)
        keys == GroupKeys(tx)
        n    == Len(keys)
    IN  [customer_id  |-> keys,
         recency      |-> [i \in 1..n |-> Recency(Group(tx, keys[i]), date)],
         frequency    |-> [i \in 1..n |-> Frequency(Group(tx, keys[i]))],
         monetary_sum |-> [i \in 1..n |-> MonetarySum(Group(tx, keys[i]))],
         monetary_avg |-> [i \in 1..n |-> MonetaryAvg(Group(tx, keys[i]))],
         T            |-> AlignToIndex(FirstPurchaseDays(tx, date), n)]

NRows(df) == Len(df.customer_id)

\* df[name] = column: the column is added, or replaced when df has it already
WithColumn(df, name, column) ==
    [c \in DOMAIN df \cup {name} |-> IF c = name THEN column ELSE df[c]]

(***************************************************************************)
(* pandas.qcut(x, q=4, labels=...) and pandas.cut(x, bins=..., labels=...) *)
(* as add_rfm_scores and get_clv_segments call them.                       *)
(***************************************************************************)
RECURSIVE Insert(_, _)
Insert(x, s) ==
    IF s = <<>> THEN <<x>>
    ELSE IF x <= Head(s) THEN <<x>> \o s
    ELSE <<Head(s)>> \o Insert(x, Tail(s))

RECURSIVE Sort(_)
Sort(s) == IF s = <<>> THEN <<>> ELSE Insert(Head(s), Sort(Tail(s)))

\* four times the quantile k/4 of xs, by linear interpolation between the two
\* order statistics around position k * (n - 1) / 4
Quantile4(xs, k) ==
    LET sorted == Sort(xs)
        pos    == k * (Len(xs) - 1)
        lo     == (pos \div 4) + 1
        frac   == pos % 4
    IN  IF frac = 0 THEN 4 * sorted[lo]
        ELSE 4 * sorted[lo] + frac * (sorted[lo + 1] - sorted[lo])

\* the five bin edges of qcut(q=4), each times four
QuartileEdges(xs) == [k \in 1..5 |-> Quantile4(xs, k - 1)]

\* _bins_to_cuts: "Bin edges must be unique" unless the edges are all distinct
EdgesUnique(edges) == \A i, j \in DOMAIN edges : edges[i] = edges[j] => i = j

\* bins.searchsorted(x, side='left'): the number of edges below x
SearchSortedLeft(edges, x) == Cardinality({i \in DOMAIN edges : edges[i] < x})

\* variant: include_lowest ignored, the lowest edge is in no bin
BinLabelLowestExcluded(edges, x, labels, include_lowest) ==
    LET found == SearchSortedLeft(edges, x)
    IN  IF found = 0 \/ found = Len(edges) THEN NaN ELSE Some(labels[found])

\* the label of the bin (edges[id], edges[id + 1]] that holds x, NaN outside the
\* edges; include_lowest puts x = edges[1] in the first bin
BinLabel(edges, x, labels, include_lowest) ==
    LET found == SearchSortedLeft(edges, x)
        id    == IF include_lowest /\ x = edges[1] THEN 1 ELSE found
    IN  IF id = 0 \/ id = Len(edges) THEN NaN ELSE Some(labels[id])

\* qcut on a column of integers: the labelled column, or the error it raises
\* (the quantiles of a column without rows are all NaN, which are not unique)
qcut(xs, labels) ==
    LET edges == QuartileEdges(xs)
    IN  IF xs = <<>> \/ ~EdgesUnique(edges)
        THEN [raised |-> "ValueError: Bin edges must be unique", column |-> <<>>]
        ELSE [raised |-> NoError,
              column |-> [i \in DOMAIN xs |-> BinLabel(edges, 4 * xs[i], labels, TRUE)]]

\* cut on a column of integers with the finite edges given and a last edge of
\* +infinity; right-closed bins, the lowest edge not included
cut(xs, finite_edges, labels) ==
    [i \in DOMAIN xs |->
        LET found == SearchSortedLeft(finite_edges, xs[i])
        IN  IF found = 0 THEN NaN ELSE Some(labels[found])]

\* a column of fractions as integers on a common denominator; the bins of qcut
\* and cut do not change when every value is scaled by the same positive factor
RECURSIVE CommonDenominator(_)
CommonDenominator(fs) ==
    IF fs = <<>> THEN 1
    ELSE LET d == CommonDenominator(Tail(fs))
         IN  (d * Head(fs)[2]) \div GCD(d, Head(fs)[2])

OnDenominator(fs, d) == [i \in DOMAIN fs |-> fs[i][1] * (d \div fs[i][2])]

(***************************************************************************)
(* RFMCalculator.add_rfm_scores                                            *)
(***************************************************************************)
\* variant: recency scored ascending like the other two metrics
r_labels_ascending == <<1, 2, 3, 4>>

r_labels == <<4, 3, 2, 1>>
f_labels == <<1, 2, 3, 4>>
m_labels == <<1, 2, 3, 4>>

r_bins == <<0, 7, 30, 90>>
f_bins == <<0, 2, 5, 10>>
m_bins == <<0, 100, 250, 500>>

\* astype(str) of a score cell
ScoreStr(cell) ==
    IF cell = NaN THEN "nan"
    ELSE CASE cell[1] = 1 -> "1" [] cell[1] = 2 -> "2"
           [] cell[1] = 3 -> "3" [] cell[1] = 4 -> "4"

\* rfm['R_score'].astype(str) + rfm['F_score'].astype(str) + rfm['M_score'].astype(str)
RFMScoreColumn(r, f, m) ==
    [i \in DOMAIN r |-> ScoreStr(r[i]) \o ScoreStr(f[i]) \o ScoreStr(m[i])]

WithScores(df, r, f, m) ==
    WithColumn(WithColumn(WithColumn(WithColumn(df,
        "R_score", r), "F_score", f), "M_score", m), "RFM_Score", RFMScoreColumn(r, f, m))

add_rfm_scores(df, quartiles) ==
    LET d     == CommonDenominator(df.monetary_avg)
        money == OnDenominator(df.monetary_avg, d)
    IN  IF quartiles
        THEN LET r == qcut(df.recency, r_labels)
                 f == qcut(df.frequency, f_labels)
                 m == qcut(money, m_labels)
             IN  IF r.raised # NoError THEN [raised |-> r.raised, rfm |-> df]
                 ELSE IF f.raised # NoError THEN [raised |-> f.raised, rfm |-> df]
                 ELSE IF m.raised # NoError THEN [raised |-> m.raised, rfm |-> df]
                 ELSE [raised |-> NoError,
                       rfm |-> WithScores(df, r.column, f.column, m.column)]
        ELSE [raised |-> NoError,
              rfm |-> WithScores(df,
                        cut(df.recency, r_bins, r_labels),
                        cut(df.frequency, f_bins, f_labels),
                        cut(money, [i \in DOMAIN m_bins |-> m_bins[i] * d], m_labels))]

(***************************************************************************)
(* RFMCalculator.get_customer_segment                                      *)
(***************************************************************************)
\* variant: the frequency rule tried before the recency rule
segment_customer_loyal_first(RFM_Score, R_score, F_score, M_score) ==
    IF RFM_Score \in {"444", "434", "443", "433"} THEN "Best Customers"
    ELSE IF F_score = Some(4) THEN "Loyal Customers"
    ELSE IF R_score = Some(4) THEN "Recent Customers"
    ELSE IF M_score = Some(4) THEN "Big Spenders"
    ELSE IF R_score = Some(1) THEN "Lost Customers"
    ELSE "Average Customers"

segment_customer(RFM_Score, R_score, F_score, M_score) ==
    IF RFM_Score \in {"444", "434", "443", "433"} THEN "Best Customers"
    ELSE IF R_score = Some(4) THEN "Recent Customers"
    ELSE IF F_score = Some(4) THEN "Loyal Customers"
    ELSE IF M_score = Some(4) THEN "Big Spenders"
    ELSE IF R_score = Some(1) THEN "Lost Customers"
    ELSE "Average Customers"

get_customer_segment(df) ==
    WithColumn(df, "Customer_Segment",
        [i \in 1..NRows(df) |->
            segment_customer(df.RFM_Score[i], df.R_score[i], df.F_score[i], df.M_score[i])])

(***************************************************************************)
(* CLVCalculator.  A model object of the lifetimes library is Unfitted     *)
(* when constructed and Fitted once its fit method has returned; a method  *)
(* that needs the parameters of an Unfitted object raises the library's    *)
(* own ValueError.  Whether a fit converges and what a fitted model        *)
(* predicts are inputs of the operations.                                  *)
(***************************************************************************)
Unfitted == <<FALSE>>
Fitted == <<TRUE>>

MustBeFit == "ValueError: Models must be fit before predicting CLV"
NotFitYet == "ValueError: Model has not been fit yet"
FitFailed == "ConvergenceError: \nThe model did not converge. Try adding a larger penalizer to see if that helps convergence.\n"

\* model.fit(...): the object after the call
FitResult(converges) == IF converges THEN Fitted ELSE Unfitted

\* fit_models: bgf_model is assigned and fitted, then ggf_model; an exception
\* of the first fit leaves ggf_model as it was
fit_models(ggf, bgf_converges, ggf_converges) ==
    IF ~bgf_converges
    THEN [raised |-> FitFailed, bgf_model |-> FitResult(FALSE), ggf_model |-> ggf]
    ELSE [raised |-> IF ggf_converges THEN NoError ELSE FitFailed,
          bgf_model |-> FitResult(TRUE),
          ggf_model |-> FitResult(ggf_converges)]

\* variant: no check of the models at all
ModelsNeverMissing(bgf, ggf) == FALSE

\* if self.bgf_model is None or self.ggf_model is None
ModelsMissing(bgf, ggf) == bgf = None \/ ggf = None

\* a prediction method called on a model attribute
MethodCall(model) ==
    IF model = None THEN "AttributeError: 'NoneType' object"
    ELSE IF model = Unfitted THEN NotFitYet
    ELSE NoError

\* predict_clv: the guard, bgf_model.predict, ggf_model.customer_lifetime_value
\* (which uses both models), then the two column assignments
predict_clv(df, bgf, ggf, predicted_transactions, clv) ==
    IF ModelsMissing(bgf, ggf) THEN [raised |-> MustBeFit, rfm |-> df]
    ELSE IF MethodCall(bgf) # NoError THEN [raised |-> MethodCall(bgf), rfm |-> df]
    ELSE IF MethodCall(ggf) # NoError THEN [raised |-> MethodCall(ggf), rfm |-> df]
    ELSE [raised |-> NoError,
          rfm |-> WithColumn(WithColumn(df,
                    "predicted_transactions", predicted_transactions), "clv", clv)]

clv_labels == <<"Low Value", "Medium Value", "High Value", "Top Value">>

\* variant: a table without clv gets the lowest segment on every row
get_clv_segments_defaulting(df) ==
    IF "clv" \notin Columns(df)
    THEN [raised |-> NoError,
          rfm |-> WithColumn(df, "clv_segment", [i \in 1..NRows(df) |-> Some(clv_labels[1])])]
    ELSE LET cuts == qcut(df.clv, clv_labels)
         IN  IF cuts.raised # NoError THEN [raised |-> cuts.raised, rfm |-> df]
             ELSE [raised |-> NoError, rfm |-> WithColumn(df, "clv_segment", cuts.column)]

\* get_clv_segments: rfm['clv'] raises KeyError on a table without the column
get_clv_segments(df) ==
    IF "clv" \notin Columns(df) THEN [raised |-> "KeyError: 'clv'", rfm |-> df]
    ELSE LET cuts == qcut(df.clv, clv_labels)
         IN  IF cuts.raised # NoError THEN [raised |-> cuts.raised, rfm |-> df]
             ELSE [raised |-> NoError, rfm |-> WithColumn(df, "clv_segment", cuts.column)]

(***************************************************************************)
(* Specification of calculate_rfm over bounded transaction tables.         *)
(***************************************************************************)
Transaction == [customer_id : CustomerIds,
                transaction_date : 0..MaxTick,
                amount : Amounts]

\* no date, a date no later than every transaction, a date after all of them
AnalysisDates == {None, Some(0), Some(MaxTick + 1)}

InitRfm ==
    /\ \E n \in 1..MaxTxns : transactions \in [1..n -> Transaction]
    /\ analysis_date \in AnalysisDates
    /\ asof = None
    /\ rfm = NoTable
    /\ err = NoError
    /\ op = "init"
    /\ bgf_model = None
    /\ ggf_model = None
    /\ last_fit = "never"
    /\ run = NoRun

CalculateRfm ==
    /\ op = "init"
    /\ rfm' = calculate_rfm(transactions, analysis_date)
    /\ asof' = Some(ResolveAnalysisDate(transactions, analysis_date))
    /\ op' = "calculate_rfm"
    /\ err' = NoError
    /\ UNCHANGED <<transactions, analysis_date, bgf_model, ggf_model, last_fit, run>>

NextRfm == CalculateRfm

SpecRfm == InitRfm /\ [][NextRfm]_vars

(***************************************************************************)
(* Specification of the scoring in quartile mode: add_rfm_scores and then  *)
(* get_customer_segment on bounded tables of the shape calculate_rfm       *)
(* returns.  The rows are drawn best customer first: recency ascending,    *)
(* frequency and monetary_sum descending.                                  *)
(***************************************************************************)
Ascending(col) == \A i \in 1..(Len(col) - 1) : col[i] <= col[i + 1]
Descending(col) == \A i \in 1..(Len(col) - 1) : col[i] >= col[i + 1]

RfmTable(recency, frequency, monetary_sum) ==
    [customer_id  |-> [i \in DOMAIN recency |-> i - 1],
     recency      |-> recency,
     frequency    |-> frequency,
     monetary_sum |-> monetary_sum,
     monetary_avg |-> [i \in DOMAIN recency |-> Fraction(monetary_sum[i], frequency[i])],
     T            |-> [i \in DOMAIN recency |-> Some(recency[i])]]

InitBase ==
    /\ transactions = <<>>
    /\ analysis_date = None
    /\ asof = None
    /\ err = NoError
    /\ bgf_model = None
    /\ ggf_model = None
    /\ last_fit = "never"
    /\ run = NoRun

InitScore ==
    /\ InitBase
    /\ op = "calculate_rfm"
    /\ \E n \in 1..MaxCustomers :
         LET recencies   == {c \in [1..n -> RecencyValues] : Ascending(c)}
             frequencies == {c \in [1..n -> FrequencyValues] : Descending(c)}
             sums        == {c \in [1..n -> MonetarySums] : Descending(c)}
         IN  \E recency \in recencies, frequency \in frequencies, monetary_sum \in sums :
                 rfm = RfmTable(recency, frequency, monetary_sum)

AddRfmScores(quartiles) ==
    /\ op = "calculate_rfm"
    /\ LET result == add_rfm_scores(rfm, quartiles)
       IN  /\ rfm' = result.rfm
           /\ err' = result.raised
    /\ op' = "add_rfm_scores"
    /\ UNCHANGED <<transactions, analysis_date, asof, bgf_model, ggf_model, last_fit, run>>

GetCustomerSegment ==
    /\ op = "add_rfm_scores"
    /\ err = NoError
    /\ rfm' = get_customer_segment(rfm)
    /\ op' = "get_customer_segment"
    /\ UNCHANGED <<transactions, analysis_date, asof, err, bgf_model, ggf_model, last_fit, run>>

NextScore ==
    \/ AddRfmScores(TRUE)
    \/ GetCustomerSegment

SpecScore == InitScore /\ [][NextScore]_vars

(***************************************************************************)
(* Specification of get_customer_segment: the tables are those that        *)
(* add_rfm_scores returns in fixed-break mode for one or two customers,    *)
(* with a value of each metric in every bin (and recency 0, which no bin   *)
(* holds).                                                                 *)
(***************************************************************************)
BinRecencies == {0, 5, 20, 60, 100}
BinFrequencies == {1, 3, 7, 12}
BinAmounts == {50, 200, 400, 600}

InitSegment ==
    /\ InitBase
    /\ op = "add_rfm_scores"
    /\ \E n \in 1..2 :
         \E recency \in [1..n -> BinRecencies],
            frequency \in [1..n -> BinFrequencies],
            amount \in [1..n -> BinAmounts] :
              rfm = add_rfm_scores(
                        RfmTable(recency, frequency,
                                 [i \in 1..n |-> amount[i] * frequency[i]]),
                        FALSE).rfm

NextSegment == GetCustomerSegment

SpecSegment == InitSegment /\ [][NextSegment]_vars

(***************************************************************************)
(* Specification of the scoring in fixed-break mode: add_rfm_scores with   *)
(* quartiles=False on one-customer tables whose metrics lie inside the     *)
(* bins and on their edges.                                                *)
(***************************************************************************)
EdgeRecencies == {0, 5, 7, 20, 30, 60, 90, 100}
EdgeFrequencies == {1, 2, 3, 5, 7, 10, 12}
EdgeAmounts == {50, 100, 200, 250, 400, 500, 600}

InitFixed ==
    /\ InitBase
    /\ op = "calculate_rfm"
    /\ \E recency \in EdgeRecencies, frequency \in EdgeFrequencies, amount \in EdgeAmounts :
         rfm = RfmTable(<<recency>>, <<frequency>>, <<amount * frequency>>)

NextFixed == AddRfmScores(FALSE)

SpecFixed == InitFixed /\ [][NextFixed]_vars

(***************************************************************************)
(* Specification of the CLV estimator: calculators are constructed and     *)
(* their methods called in any order on a scored and segmented table.      *)
(***************************************************************************)
\* customer i of n: recency and frequency i, amounts of 90 * i
SegmentedTable(n) ==
    get_customer_segment(
        add_rfm_scores(RfmTable([i \in 1..n |-> i], [i \in 1..n |-> i],
                                [i \in 1..n |-> 90 * i * i]), FALSE).rfm)

InitClv ==
    /\ InitBase
    /\ op = "get_customer_segment"
    /\ \E n \in 1..MaxClvRows : rfm = SegmentedTable(n)

\* CLVCalculator(): a new calculator replaces the one in use
Construct ==
    /\ bgf_model' = None
    /\ ggf_model' = None
    /\ last_fit' = "never"
    /\ op' = "__init__"
    /\ err' = NoError
    /\ UNCHANGED <<transactions, analysis_date, asof, rfm, run>>

FitModels ==
    \E bgf_converges, ggf_converges \in BOOLEAN :
        LET result == fit_models(ggf_model, bgf_converges, ggf_converges)
        IN  /\ bgf_model' = result.bgf_model
            /\ ggf_model' = result.ggf_model
            /\ err' = result.raised
            /\ last_fit' = IF result.raised = NoError THEN "completed" ELSE "raised"
            /\ op' = "fit_models"
            /\ UNCHANGED <<transactions, analysis_date, asof, rfm, run>>

PredictClv ==
    \E predicted_transactions \in [1..NRows(rfm) -> PredictedValues],
       clv \in [1..NRows(rfm) -> ClvValues] :
        LET result == predict_clv(rfm, bgf_model, ggf_model, predicted_transactions, clv)
        IN  /\ rfm' = result.rfm
            /\ err' = result.raised
            /\ op' = "predict_clv"
            /\ UNCHANGED <<transactions, analysis_date, asof, bgf_model, ggf_model, last_fit, run>>

GetClvSegments ==
    LET result == get_clv_segments(rfm)
    IN  /\ rfm' = result.rfm
        /\ err' = result.raised
        /\ op' = "get_clv_segments"
        /\ UNCHANGED <<transactions, analysis_date, asof, bgf_model, ggf_model, last_fit, run>>

NextClv ==
    \/ Construct
    \/ FitModels
    \/ PredictClv
    \/ GetClvSegments

SpecClv == InitClv /\ [][NextClv]_vars

(***************************************************************************)
(* Specification of main: the body of its try block, stage by stage, on    *)
(* the bounded transaction tables of calculate_rfm.  A stage that raises   *)
(* ends the run in the except clause, which logs the error and re-raises   *)
(* it.  Reading and writing files can fail at any stage that does it.      *)
(* The transactions are in customer order, as generate_transactions makes  *)
(* them; when the data files exist they are loaded and preprocessed.       *)
(***************************************************************************)
RECURSIVE drop_duplicates(_)
\* DataFrame.drop_duplicates: the first of equal rows stays
drop_duplicates(rows) ==
    IF rows = <<>> THEN <<>>
    ELSE LET n == Len(rows)
             front == drop_duplicates(SubSeq(rows, 1, n - 1))
         IN  IF \E k \in 1..(n - 1) : rows[k] = rows[n] THEN front
             ELSE Append(front, rows[n])

RECURSIVE sort_values(_)
\* DataFrame.sort_values('transaction_date'), rows of one date in their order
sort_values(rows) ==
    IF rows = <<>> THEN <<>>
    ELSE LET n == Len(rows)
             front == sort_values(SubSeq(rows, 1, n - 1))
             keep == Cardinality({k \in DOMAIN front :
                                    front[k].transaction_date <= rows[n].transaction_date})
         IN  SubSeq(front, 1, keep) \o <<rows[n]>> \o SubSeq(front, keep + 1, Len(front))

\* transactions[transactions['customer_id'].isin(customers['customer_id'])]
isin(rows, customers) == SelectSeq(rows, LAMBDA row : row.customer_id \in customers)

\* the transactions preprocess_data returns; customers are the customer_id
\* values of the customers table
preprocess_data(customers, rows) == isin(sort_values(drop_duplicates(rows)), customers)

CustomerOrder(rows) ==
    \A k \in 1..(Len(rows) - 1) : rows[k].customer_id <= rows[k + 1].customer_id

DataPaths == {"generate", "load"}

StageOrder == <<"load_data", "calculate_rfm", "add_rfm_scores", "get_customer_segment",
                "fit_models", "predict_clv", "get_clv_segments", "plots", "report",
                "save_results">>

ResultsFile == "reports/customer_analysis_results.csv"

\* the files of the stages that write files, in the order they are written
DataFiles == <<"data/customers.csv", "data/transactions.csv">>
FigureFiles == <<"figures/rfm_distributions.png", "figures/segment_characteristics.png",
                 "figures/clv_analysis.png", "figures/retention_matrix.png">>
ReportFiles == <<"reports/analysis_report.md">>
ResultsFiles == <<ResultsFile>>

FilesOf(names) == {names[k] : k \in DOMAIN names}

\* the directories the stages create before they write
DataDir == "data"
FiguresDir == "figures"
ReportsDir == "reports"

\* the OSError of a mkdir or an open that fails, which names the path, and of a
\* write that fails, which names none
NoSpaceAt(path) == "OSError: [Errno 28] No space left on device: '" \o path \o "'"
NoSpace == "OSError: [Errno 28] No space left on device"

\* how a stage that makes the directories and then writes the files named can
\* end: all written; a mkdir fails, nothing created; the open of one file
\* fails, the files before it written; the write of one file fails, the file
\* created but not written
IOOutcomes(dirs, names) ==
    {[raised |-> NoError, created |-> FilesOf(names), written |-> FilesOf(names)]}
    \cup {[raised |-> NoSpaceAt(dirs[d]), created |-> {}, written |-> {}] : d \in DOMAIN dirs}
    \cup {[raised  |-> NoSpaceAt(names[k]),
           created |-> FilesOf(SubSeq(names, 1, k - 1)),
           written |-> FilesOf(SubSeq(names, 1, k - 1))] : k \in DOMAIN names}
    \cup {[raised  |-> NoSpace,
           created |-> FilesOf(SubSeq(names, 1, k)),
           written |-> FilesOf(SubSeq(names, 1, k - 1))] : k \in DOMAIN names}

\* the exceptions of read_csv in load_data: a file that is missing, a file
\* without content, a file without the date column, a line that does not parse
NotFound(path) == "FileNotFoundError: [Errno 2] No such file or directory: '" \o path \o "'"
EmptyData == "EmptyDataError: No columns to parse from file"
MissingDateColumn(column) ==
    "ValueError: Missing column provided to 'parse_dates': '" \o column \o "'"
ParserError == "ParserError: Error tokenizing data"

\* how load_data can end when customers.csv is there
LoadOutcomes ==
    {NoError, NotFound(DataFiles[2]), EmptyData, ParserError,
     MissingDateColumn("first_purchase"), MissingDateColumn("transaction_date")}

\* the record logger.error writes: the text before str(e), and e
LogRecord(raised) == [level |-> "ERROR", text |-> "Error during analysis: ", exception |-> raised]

\* the statement main executes next
NextStage(r) == StageOrder[Len(r.completed) + 1]

\* variant: the except clause swallows the error and the run goes on
StageOutcomeSwallowing(r, stage, outcome) ==
    [r EXCEPT !.attempted = Append(@, stage),
              !.completed = Append(@, stage),
              !.files = @ \cup outcome.created,
              !.written = @ \cup outcome.written,
              !.status = IF stage = StageOrder[Len(StageOrder)] THEN "done" ELSE "running"]

\* the run after a stage: the files the stage created and wrote; on an
\* exception, logger.error and raise; else the end of main after the last stage
StageOutcome(r, stage, outcome) ==
    IF outcome.raised # NoError
    THEN [r EXCEPT !.attempted = Append(@, stage),
                   !.files = @ \cup outcome.created,
                   !.written = @ \cup outcome.written,
                   !.status = "raised",
                   !.logged = Append(@, LogRecord(outcome.raised))]
    ELSE [r EXCEPT !.attempted = Append(@, stage),
                   !.completed = Append(@, stage),
                   !.files = @ \cup outcome.created,
                   !.written = @ \cup outcome.written,
                   !.status = IF stage = StageOrder[Len(StageOrder)] THEN "done" ELSE "running"]

\* the outcome of a stage that writes no file
Computed(raised) == [raised |-> raised, created |-> {}, written |-> {}]

AtStage(stage) ==
    /\ run.status = "running"
    /\ NextStage(run) = stage
    /\ op' = stage

\* a stage that makes the directories and writes the files named, in order
WritesFiles(stage, dirs, names) ==
    \E outcome \in IOOutcomes(dirs, names) :
        /\ err' = outcome.raised
        /\ run' = StageOutcome(run, stage, outcome)

InitMain ==
    /\ \E n \in 1..MaxTxns :
         transactions \in {rows \in [1..n -> Transaction] : CustomerOrder(rows)}
    /\ analysis_date = None
    /\ asof = None
    /\ rfm = NoTable
    /\ err = NoError
    /\ op = "main"
    /\ bgf_model = None
    /\ ggf_model = None
    /\ last_fit = "never"
    /\ run = NoRun

\* generate_dataset and save_data, or load_data and preprocess_data
MainLoadData ==
    /\ AtStage("load_data")
    /\ \/ /\ WritesFiles("load_data", <<DataDir>>, DataFiles)
          /\ UNCHANGED transactions
       \/ \E customers \in SUBSET CustomerIds, raised \in LoadOutcomes :
            /\ err' = raised
            /\ transactions' = IF raised = NoError
                               THEN preprocess_data(customers, transactions)
                               ELSE transactions
            /\ run' = StageOutcome(run, "load_data", Computed(raised))
    /\ UNCHANGED <<analysis_date, asof, rfm, bgf_model, ggf_model, last_fit>>

MainCalculateRfm ==
    /\ AtStage("calculate_rfm")
    /\ rfm' = calculate_rfm(transactions, None)
    /\ asof' = IF transactions = <<>> THEN NaN    \* the max of no dates is NaT
               ELSE Some(ResolveAnalysisDate(transactions, None))
    /\ err' = NoError
    /\ run' = StageOutcome(run, "calculate_rfm", Computed(NoError))
    /\ UNCHANGED <<transactions, analysis_date, bgf_model, ggf_model, last_fit>>

MainAddRfmScores ==
    /\ AtStage("add_rfm_scores")
    /\ LET result == add_rfm_scores(rfm, TRUE)
       IN  /\ rfm' = result.rfm
           /\ err' = result.raised
           /\ run' = StageOutcome(run, "add_rfm_scores", Computed(result.raised))
    /\ UNCHANGED <<transactions, analysis_date, asof, bgf_model, ggf_model, last_fit>>

MainGetCustomerSegment ==
    /\ AtStage("get_customer_segment")
    /\ rfm' = get_customer_segment(rfm)
    /\ err' = NoError
    /\ run' = StageOutcome(run, "get_customer_segment", Computed(NoError))
    /\ UNCHANGED <<transactions, analysis_date, asof, bgf_model, ggf_model, last_fit>>

\* clv_calculator = CLVCalculator(); clv_calculator.fit_models(rfm_data)
MainFitModels ==
    /\ AtStage("fit_models")
    /\ \E bgf_converges, ggf_converges \in BOOLEAN :
         LET result == fit_models(None, bgf_converges, ggf_converges)
         IN  /\ bgf_model' = result.bgf_model
             /\ ggf_model' = result.ggf_model
             /\ err' = result.raised
             /\ last_fit' = IF result.raised = NoError THEN "completed" ELSE "raised"
             /\ run' = StageOutcome(run, "fit_models", Computed(result.raised))
    /\ UNCHANGED <<transactions, analysis_date, asof, rfm>>

MainPredictClv ==
    /\ AtStage("predict_clv")
    /\ \E predicted_transactions \in [1..NRows(rfm) -> PredictedValues],
          clv \in [1..NRows(rfm) -> ClvValues] :
         LET result == predict_clv(rfm, bgf_model, ggf_model, predicted_transactions, clv)
         IN  /\ rfm' = result.rfm
             /\ err' = result.raised
             /\ run' = StageOutcome(run, "predict_clv", Computed(result.raised))
    /\ UNCHANGED <<transactions, analysis_date, asof, bgf_model, ggf_model, last_fit>>

MainGetClvSegments ==
    /\ AtStage("get_clv_segments")
    /\ LET result == get_clv_segments(rfm)
       IN  /\ rfm' = result.rfm
           /\ err' = result.raised
           /\ run' = StageOutcome(run, "get_clv_segments", Computed(result.raised))
    /\ UNCHANGED <<transactions, analysis_date, asof, bgf_model, ggf_model, last_fit>>

\* the four plot calls of the visualizer
MainPlots ==
    /\ AtStage("plots")
    /\ WritesFiles("plots", <<FiguresDir>>, FigureFiles)
    /\ UNCHANGED <<transactions, analysis_date, asof, rfm, bgf_model, ggf_model, last_fit>>

MainReport ==
    /\ AtStage("report")
    /\ WritesFiles("report", <<ReportsDir>>, ReportFiles)
    /\ UNCHANGED <<transactions, analysis_date, asof, rfm, bgf_model, ggf_model, last_fit>>

MainSaveResults ==
    /\ AtStage("save_results")
    /\ WritesFiles("save_results", <<>>, ResultsFiles)
    /\ UNCHANGED <<transactions, analysis_date, asof, rfm, bgf_model, ggf_model, last_fit>>

NextMain ==
    \/ MainLoadData
    \/ MainCalculateRfm
    \/ MainAddRfmScores
    \/ MainGetCustomerSegment
    \/ MainFitModels
    \/ MainPredictClv
    \/ MainGetClvSegments
    \/ MainPlots
    \/ MainReport
    \/ MainSaveResults

SpecMain == InitMain /\ [][NextMain]_vars

(***************************************************************************)
(* Properties of calculate_rfm, stated on the transactions themselves.     *)
(***************************************************************************)
TxnsOf(c) == {j \in DOMAIN transactions : transactions[j].customer_id = c}

RECURSIVE AmountOver(_)
AmountOver(J) ==
    IF J = {} THEN 0
    ELSE LET j == CHOOSE k \in J : TRUE
         IN  transactions[j].amount + AmountOver(J \ {j})

IsLatestOf(d, J) ==
    /\ \E j \in J : transactions[j].transaction_date = d
    /\ \A j \in J : transactions[j].transaction_date <= d

IsEarliestOf(d, J) ==
    /\ \E j \in J : transactions[j].transaction_date = d
    /\ \A j \in J : transactions[j].transaction_date >= d

\* n is the number of whole days in delta ticks
WholeDays(n, delta) == n * TicksPerDay <= delta /\ delta < (n + 1) * TicksPerDay

Returned(name) == op = name /\ err = NoError

\* C5: every record that calculate_rfm outputs has an integer T with recency <= T
C5_RecencyAtMostT ==
    Returned("calculate_rfm") =>
        \A i \in 1..NRows(rfm) : rfm.T[i] # NaN /\ rfm.recency[i] <= rfm.T[i][1]

\* C6: the T of each customer's record is analysis_date minus the earliest
\* transaction date of that same customer, in whole days
C6_TenureOfSameCustomer ==
    Returned("calculate_rfm") =>
        \A i \in 1..NRows(rfm) :
            /\ rfm.T[i] # NaN
            /\ \E d \in 0..MaxTick :
                  /\ IsEarliestOf(d, TxnsOf(rfm.customer_id[i]))
                  /\ WholeDays(rfm.T[i][1], asof[1] - d)

\* C7: calculate_rfm returns one record per distinct customer_id of the
\* transactions, with frequency the number of the customer's transactions,
\* monetary_sum the sum of their amounts, monetary_avg = monetary_sum / frequency
\* and recency = analysis_date minus the customer's latest date in whole days
C7_OneRecordPerCustomer ==
    Returned("calculate_rfm") =>
        /\ {rfm.customer_id[i] : i \in 1..NRows(rfm)}
             = {transactions[j].customer_id : j \in DOMAIN transactions}
        /\ \A i, k \in 1..NRows(rfm) : rfm.customer_id[i] = rfm.customer_id[k] => i = k
        /\ \A i \in 1..NRows(rfm) :
             LET J == TxnsOf(rfm.customer_id[i])
             IN  /\ rfm.frequency[i] = Cardinality(J)
                 /\ rfm.monetary_sum[i] = AmountOver(J)
                 /\ rfm.monetary_avg[i][1] * rfm.frequency[i]
                      = rfm.monetary_sum[i] * rfm.monetary_avg[i][2]
                 /\ rfm.monetary_avg[i][2] > 0
                 /\ \E d \in 0..MaxTick :
                       /\ IsLatestOf(d, J)
                       /\ WholeDays(rfm.recency[i], asof[1] - d)

\* two customers, one of them with several transactions and a fractional mean
C7_Witness ==
    /\ Returned("calculate_rfm")
    /\ NRows(rfm) >= 2
    /\ \E i \in 1..NRows(rfm) : rfm.frequency[i] >= 2 /\ rfm.monetary_avg[i][2] = 2

\* C8: without an analysis_date the analysis date is the latest transaction
\* date of the whole input plus one day, and every record has recency >= 0
C8_DefaultDateAfterLatest ==
    (Returned("calculate_rfm") /\ analysis_date = None) =>
        /\ \E d \in 0..MaxTick :
              /\ IsLatestOf(d, DOMAIN transactions)
              /\ asof = Some(d + TicksPerDay)
        /\ \A i \in 1..NRows(rfm) :
              /\ rfm.recency[i] >= 0
              /\ \E d \in 0..MaxTick :
                    /\ IsLatestOf(d, TxnsOf(rfm.customer_id[i]))
                    /\ WholeDays(rfm.recency[i], asof[1] - d)

\* no date given, two customers whose last purchases are a day or more apart
C8_Witness ==
    /\ Returned("calculate_rfm")
    /\ analysis_date = None
    /\ \E i, k \in 1..NRows(rfm) : rfm.recency[i] > rfm.recency[k]

(***************************************************************************)
(* Properties of add_rfm_scores in quartile mode.                          *)
(***************************************************************************)
Scores == {Some(v) : v \in 1..4}

Rows == 1..NRows(rfm)

\* fractions compared by cross-multiplication (the denominators are positive)
Less(a, b) == a[1] * b[2] < b[1] * a[2]

\* C9: in quartile mode a returned table has R_score, F_score and M_score in
\* 1..4 on every record; the lowest recency gets R_score 4 and the highest gets
\* 1 (lower recency, no lower score); the highest frequency and the highest
\* monetary_avg get 4 (higher value, no lower score)
C9_QuartileScores ==
    Returned("add_rfm_scores") =>
        /\ \A i \in Rows :
              /\ rfm.R_score[i] \in Scores
              /\ rfm.F_score[i] \in Scores
              /\ rfm.M_score[i] \in Scores
        /\ \A i \in Rows :
              /\ (\A j \in Rows : rfm.recency[i] <= rfm.recency[j]) => rfm.R_score[i] = Some(4)
              /\ (\A j \in Rows : rfm.recency[i] >= rfm.recency[j]) => rfm.R_score[i] = Some(1)
              /\ (\A j \in Rows : rfm.frequency[i] >= rfm.frequency[j]) => rfm.F_score[i] = Some(4)
              /\ (\A j \in Rows : ~Less(rfm.monetary_avg[i], rfm.monetary_avg[j]))
                    => rfm.M_score[i] = Some(4)
        /\ \A i, j \in Rows :
              /\ rfm.recency[i] < rfm.recency[j] => rfm.R_score[i][1] >= rfm.R_score[j][1]
              /\ rfm.frequency[i] < rfm.frequency[j] => rfm.F_score[i][1] <= rfm.F_score[j][1]
              /\ Less(rfm.monetary_avg[i], rfm.monetary_avg[j])
                    => rfm.M_score[i][1] <= rfm.M_score[j][1]

\* a returned table of four or more customers that uses every recency score
C9_Witness ==
    /\ Returned("add_rfm_scores")
    /\ NRows(rfm) >= 4
    /\ \A v \in 1..4 : \E i \in Rows : rfm.R_score[i] = Some(v)

RECURSIVE DenominatorProduct(_)
DenominatorProduct(fs) ==
    IF fs = <<>> THEN 1 ELSE Head(fs)[2] * DenominatorProduct(Tail(fs))

\* monetary_avg as integers, every fraction times the product of the denominators
MoneyAsIntegers(df) ==
    [i \in DOMAIN df.monetary_avg |->
        df.monetary_avg[i][1] * (DenominatorProduct(df.monetary_avg) \div df.monetary_avg[i][2])]

DistinctValues(col) == Cardinality({col[i] : i \in DOMAIN col})

Metrics(df) == {df.recency, df.frequency, MoneyAsIntegers(df)}

ScoreColumns(df) == {df.R_score, df.F_score, df.M_score}

\* C10 as stated: add_rfm_scores fails whenever a metric has fewer than 4
\* distinct values, succeeds whenever each metric has at least 4, and never
\* returns a table in which a score value has no record
C10_FourDistinctValuesDecide ==
    (op = "add_rfm_scores") =>
        /\ (\E col \in Metrics(rfm) : DistinctValues(col) < 4) => err # NoError
        /\ (\A col \in Metrics(rfm) : DistinctValues(col) >= 4) => err = NoError
        /\ err = NoError =>
              \A col \in ScoreColumns(rfm) : \A v \in 1..4 : \E i \in Rows : col[i] = Some(v)

\* the number of records that hold score v in a score column
BinSize(col, v) == Cardinality({i \in DOMAIN col : col[i] = Some(v)})

\* n \div 4 is the floor of n / 4, (n + 3) \div 4 its ceiling
QuarterOf(size, n) == size \in {n \div 4, (n + 3) \div 4}

PairwiseDistinct(col) == \A i, j \in DOMAIN col : col[i] = col[j] => i = j

\* C11 as stated: in every returned table each score value of each metric is
\* held by floor(n/4) or ceil(n/4) of the n customers, ties or not
C11_EqualBinsAlways ==
    Returned("add_rfm_scores") =>
        \A col \in ScoreColumns(rfm) : \A v \in 1..4 : QuarterOf(BinSize(col, v), NRows(rfm))

\* C11 amended: in every returned table each score value of a metric whose
\* values differ from customer to customer is held by floor(n/4) or ceil(n/4)
\* of the n customers
C11_EqualBinsWithoutTies ==
    Returned("add_rfm_scores") =>
        /\ PairwiseDistinct(rfm.recency) =>
              \A v \in 1..4 : QuarterOf(BinSize(rfm.R_score, v), NRows(rfm))
        /\ PairwiseDistinct(rfm.frequency) =>
              \A v \in 1..4 : QuarterOf(BinSize(rfm.F_score, v), NRows(rfm))
        /\ PairwiseDistinct(rfm.monetary_avg) =>
              \A v \in 1..4 : QuarterOf(BinSize(rfm.M_score, v), NRows(rfm))

\* five customers of five different recencies: one score held by two of them
C11_Witness ==
    /\ Returned("add_rfm_scores")
    /\ NRows(rfm) = 5
    /\ PairwiseDistinct(rfm.recency)
    /\ \E v \in 1..4 : BinSize(rfm.R_score, v) = 2

(***************************************************************************)
(* Properties of add_rfm_scores in fixed-break mode.                       *)
(***************************************************************************)
\* the score of x for breaks a < b < c taken as [0,a), [a,b), [b,c), [c,inf),
\* below, lower, upper and above being the scores of the four intervals
ScoreByBreaks(x, a, b, c, below, lower, upper, above) ==
    IF x < a THEN below ELSE IF x < b THEN lower ELSE IF x < c THEN upper ELSE above

\* C12: in fixed-break mode every record with recency >= 0, frequency >= 1 and
\* monetary_avg > 0 has R_score 4/3/2/1 for recency in [0,7), [7,30), [30,90),
\* [90,inf), F_score 1/2/3/4 for frequency in [0,2), [2,5), [5,10), [10,inf)
\* and M_score 1/2/3/4 for monetary_avg in [0,100), [100,250), [250,500),
\* [500,inf); no record is left without a score
C12_FixedBreakScores ==
    Returned("add_rfm_scores") =>
        \A i \in Rows :
            (rfm.recency[i] >= 0 /\ rfm.frequency[i] >= 1 /\ rfm.monetary_avg[i][1] > 0) =>
                /\ rfm.R_score[i] = Some(ScoreByBreaks(rfm.recency[i], 7, 30, 90, 4, 3, 2, 1))
                /\ rfm.F_score[i] = Some(ScoreByBreaks(rfm.frequency[i], 2, 5, 10, 1, 2, 3, 4))
                /\ rfm.M_score[i] =
                     Some(ScoreByBreaks(rfm.monetary_avg[i][1],
                                        100 * rfm.monetary_avg[i][2],
                                        250 * rfm.monetary_avg[i][2],
                                        500 * rfm.monetary_avg[i][2], 1, 2, 3, 4))

(***************************************************************************)
(* Properties of get_customer_segment.                                     *)
(***************************************************************************)
Segments == {"Best Customers", "Recent Customers", "Loyal Customers",
             "Big Spenders", "Lost Customers", "Average Customers"}

\* the priority rule on the three scores as numbers
SegmentRule(r, f, m) ==
    IF r = 4 /\ f \in {3, 4} /\ m \in {3, 4} THEN "Best Customers"
    ELSE IF r = 4 THEN "Recent Customers"
    ELSE IF f = 4 THEN "Loyal Customers"
    ELSE IF m = 4 THEN "Big Spenders"
    ELSE IF r = 1 THEN "Lost Customers"
    ELSE "Average Customers"

\* C4: get_customer_segment gives every record one of the six segments, and a
\* record with scores (R, F, M) in 1..4 the segment of the first matching rule:
\* RFM_Score in {444, 434, 443, 433}, R = 4, F = 4, M = 4, R = 1, otherwise
C4_SegmentByPriority ==
    Returned("get_customer_segment") =>
        \A i \in Rows :
            /\ rfm.Customer_Segment[i] \in Segments
            /\ \A r, f, m \in 1..4 :
                  (rfm.R_score[i] = Some(r) /\ rfm.F_score[i] = Some(f) /\ rfm.M_score[i] = Some(m))
                    => rfm.Customer_Segment[i] = SegmentRule(r, f, m)

\* the record with R = 4, F = 4, M = 2 is a Recent customer
C4_Witness ==
    /\ Returned("get_customer_segment")
    /\ \E i \in Rows :
          /\ rfm.R_score[i] = Some(4) /\ rfm.F_score[i] = Some(4) /\ rfm.M_score[i] = Some(2)
          /\ rfm.Customer_Segment[i] = "Recent Customers"

(***************************************************************************)
(* Properties of the CLV estimator.                                        *)
(***************************************************************************)
\* C1: on a calculator whose fit_models was never called, predict_clv raises
\* the "models must be fit" error and leaves the table as it was: it adds
\* neither predicted_transactions nor clv
C1_PredictBeforeFitRaises ==
    [][(last_fit = "never" /\ op' = "predict_clv") => (err' = MustBeFit /\ rfm' = rfm)]_vars

\* predict_clv was rejected on a calculator that was never fit
C1_Witness ==
    /\ op = "predict_clv"
    /\ last_fit = "never"
    /\ run = NoRun
    /\ err = MustBeFit

\* C2: when the most recent fit_models call raised, predict_clv is rejected
\* with the "models must be fit" error
C2_PredictAfterFailedFitRejected ==
    (op = "predict_clv" /\ last_fit = "raised") => err = MustBeFit

\* C3: get_clv_segments on a table without clv ends in an error and adds no
\* clv_segment column; a table has clv_segment only if it has clv
C3_SegmentsNeedClv ==
    /\ []("clv_segment" \in Columns(rfm) => "clv" \in Columns(rfm))
    /\ [][(op' = "get_clv_segments" /\ "clv" \notin Columns(rfm))
            => (err' = "KeyError: 'clv'" /\ rfm' = rfm)]_vars

\* get_clv_segments raised on a table without clv
C3_Witness ==
    /\ op = "get_clv_segments"
    /\ err = "KeyError: 'clv'"
    /\ "clv" \notin Columns(rfm)
    /\ "clv_segment" \notin Columns(rfm)

(***************************************************************************)
(* Properties of main.                                                     *)
(***************************************************************************)
IsPrefix(s, t) == Len(s) <= Len(t) /\ s = SubSeq(t, 1, Len(s))

====
